---- MODULE Spec2Model ----
(***************************************************************************)
(* A model of the conStats library (src/src/constats.c): the statistics    *)
(* engine constats_calculate_stats, the z-score histogram renderer and the *)
(* compact number formatter constats_truncate.                             *)
(*                                                                         *)
(* Arithmetic.  The library computes in C `float' (IEEE-754 binary32) and  *)
(* `double' (binary64).  Both are modelled bit-exactly for finite values:  *)
(* a floating value is a record [s, m, e] standing for s * m * 2^e with    *)
(* s in {-1, 0, 1} and m an odd natural number of at most 24 (float) or 53 *)
(* (double) bits, and every operation is the exact operation followed by   *)
(* round-to-nearest-even to the precision of its C type.  A mantissa is a  *)
(* little-endian sequence of 15-bit limbs, because a double's mantissa     *)
(* does not fit the integers of the model checker.  NaN (0/0) is the       *)
(* record whose sign is 2.  Exponent range (overflow to infinity,          *)
(* subnormals) is not modelled: the bounded inputs keep every magnitude    *)
(* between 2^-80 and 2^80.                                                 *)
(***************************************************************************)
EXTENDS Integers, Sequences, FiniteSets

\* ------------------------------------------------------------------------
\* Natural numbers of any size: little-endian sequences of limbs.
\* ------------------------------------------------------------------------

LimbBits == 15

Pow2(k) == 2^k

Base == Pow2(LimbBits)

Limb(a, i) == IF i <= Len(a) THEN a[i] ELSE 0

RECURSIVE BNTrim(_)
BNTrim(a) ==
    IF a = <<>> THEN <<>>
    ELSE IF a[Len(a)] = 0 THEN BNTrim(SubSeq(a, 1, Len(a) - 1))
    ELSE a

RECURSIVE BNFromInt(_)
BNFromInt(n) == IF n = 0 THEN <<>> ELSE <<n % Base>> \o BNFromInt(n \div Base)

RECURSIVE BNToInt(_)
BNToInt(a) == IF a = <<>> THEN 0 ELSE Head(a) + Base * BNToInt(Tail(a))

RECURSIVE BNCmpFrom(_, _, _)
BNCmpFrom(a, b, i) ==
    IF i = 0 THEN 0
    ELSE IF Limb(a, i) < Limb(b, i) THEN -1
    ELSE IF Limb(a, i) > Limb(b, i) THEN 1
    ELSE BNCmpFrom(a, b, i - 1)

\* -1, 0, 1 as a < b, a = b, a > b (both trimmed)
BNCmp(a, b) ==
    IF Len(a) < Len(b) THEN -1
    ELSE IF Len(a) > Len(b) THEN 1
    ELSE BNCmpFrom(a, b, Len(a))

RECURSIVE BNAddFrom(_, _, _, _, _)
BNAddFrom(a, b, i, c, acc) ==
    IF i > Len(a) /\ i > Len(b)
    THEN IF c > 0 THEN Append(acc, c) ELSE acc
    ELSE LET t == Limb(a, i) + Limb(b, i) + c
         IN  BNAddFrom(a, b, i + 1, t \div Base, Append(acc, t % Base))

BNAdd(a, b) == BNAddFrom(a, b, 1, 0, <<>>)

RECURSIVE BNSubFrom(_, _, _, _, _)
BNSubFrom(a, b, i, c, acc) ==
    IF i > Len(a) THEN acc
    ELSE LET t == Limb(a, i) - Limb(b, i) - c
         IN  IF t < 0 THEN BNSubFrom(a, b, i + 1, 1, Append(acc, t + Base))
             ELSE BNSubFrom(a, b, i + 1, 0, Append(acc, t))

\* a - b for a >= b
BNSub(a, b) == BNTrim(BNSubFrom(a, b, 1, 0, <<>>))

RECURSIVE BNMulLimbFrom(_, _, _, _, _)
BNMulLimbFrom(a, d, i, c, acc) ==
    IF i > Len(a)
    THEN IF c > 0 THEN Append(acc, c) ELSE acc
    ELSE LET t == Limb(a, i) * d + c
         IN  BNMulLimbFrom(a, d, i + 1, t \div Base, Append(acc, t % Base))

\* a * d for a limb d
BNMulLimb(a, d) == IF d = 0 THEN <<>> ELSE BNMulLimbFrom(a, d, 1, 0, <<>>)

Zeros(n) == [i \in 1..n |-> 0]

RECURSIVE BNMulFrom(_, _, _, _)
BNMulFrom(a, b, j, acc) ==
    IF j > Len(b) THEN acc
    ELSE BNMulFrom(a, b, j + 1,
                   IF Limb(b, j) = 0 THEN acc
                   ELSE BNAdd(acc, Zeros(j - 1) \o BNMulLimb(a, Limb(b, j))))

BNMul(a, b) == IF a = <<>> \/ b = <<>> THEN <<>> ELSE BNMulFrom(a, b, 1, <<>>)

\* a * 2^k
BNShl(a, k) ==
    IF a = <<>> THEN <<>>
    ELSE Zeros(k \div LimbBits) \o BNMulLimb(a, Pow2(k % LimbBits))

\* floor(a / 2^k)
BNShr(a, k) ==
    LET q == k \div LimbBits
        r == k % LimbBits
        lo == Pow2(r)
        hi == Pow2(LimbBits - r)
        n == Len(a) - q
    IN  IF n <= 0 THEN <<>>
        ELSE BNTrim([i \in 1..n |->
                 (Limb(a, i + q) \div lo) + (Limb(a, i + q + 1) % lo) * hi])

RECURSIVE IntBitLen(_)
IntBitLen(n) == IF n = 0 THEN 0 ELSE 1 + IntBitLen(n \div 2)

BNBitLen(a) ==
    IF a = <<>> THEN 0 ELSE (Len(a) - 1) * LimbBits + IntBitLen(a[Len(a)])

\* bit k (k >= 0) of a
BNBit(a, k) == (Limb(a, (k \div LimbBits) + 1) \div Pow2(k % LimbBits)) % 2

\* a mod 2^k = 0
BNLowZero(a, k) ==
    /\ \A i \in 1..(k \div LimbBits) : Limb(a, i) = 0
    /\ Limb(a, (k \div LimbBits) + 1) % Pow2(k % LimbBits) = 0

RECURSIVE IntTrailingZeros(_)
IntTrailingZeros(n) == IF n % 2 = 1 THEN 0 ELSE 1 + IntTrailingZeros(n \div 2)

RECURSIVE BNTrailingZerosFrom(_, _)
BNTrailingZerosFrom(a, i) ==
    IF Limb(a, i) = 0 THEN LimbBits + BNTrailingZerosFrom(a, i + 1)
    ELSE IntTrailingZeros(Limb(a, i))

\* the number of trailing zero bits of a > 0
BNTrailingZeros(a) == BNTrailingZerosFrom(a, 1)

\* A loop of n steps is written as the recursion
\*     Loop(n, v) == IF v.i >= n THEN v
\*                   ELSE IF v.i + 1 = n THEN Step(v)
\*                   ELSE Loop(n, Loop((v.i + n) \div 2, v))
\* on the record v of the variables the loop updates, i the number of steps
\* done: the steps are taken one after the other from v.i to n - 1, and
\* the recursion is as deep as the logarithm of their number.

\* Binary long division, one bit of a per step, from the top bit n - 1 down:
\* st = [i, q, r] with q = floor(x / b), r = x mod b for x = floor(a / 2^(n-i)).
BNDivModStep(a, b, n, st) ==
    LET r2 == BNAdd(BNMulLimb(st.r, 2), BNFromInt(BNBit(a, n - 1 - st.i)))
        q2 == BNMulLimb(st.q, 2)
    IN  IF BNCmp(r2, b) >= 0
        THEN [i |-> st.i + 1, q |-> BNAdd(q2, <<1>>), r |-> BNSub(r2, b)]
        ELSE [i |-> st.i + 1, q |-> q2, r |-> r2]

RECURSIVE BNDivModLoop(_, _, _, _, _)
BNDivModLoop(a, b, n, to, st) ==
    IF st.i >= to THEN st
    ELSE IF st.i + 1 = to THEN BNDivModStep(a, b, n, st)
    ELSE BNDivModLoop(a, b, n, to, BNDivModLoop(a, b, n, (st.i + to) \div 2, st))

BNDivModBits(a, b, n) == BNDivModLoop(a, b, n, n, [i |-> 0, q |-> <<>>, r |-> <<>>])

\* [q |-> floor(a / b), r |-> a mod b] for b > 0
BNDivMod(a, b) == BNDivModBits(a, b, BNBitLen(a))

\* Bitwise integer square root, one bit of the root per step, from bit
\* n - 1 down: st = [i, r] with r the root's bits above bit n - 1 - i.
BNSqrtStep(a, n, st) ==
    LET t == BNAdd(st.r, BNShl(<<1>>, n - 1 - st.i))
    IN  IF BNCmp(BNMul(t, t), a) <= 0
        THEN [i |-> st.i + 1, r |-> t]
        ELSE [i |-> st.i + 1, r |-> st.r]

RECURSIVE BNSqrtLoop(_, _, _, _)
BNSqrtLoop(a, n, to, st) ==
    IF st.i >= to THEN st
    ELSE IF st.i + 1 = to THEN BNSqrtStep(a, n, st)
    ELSE BNSqrtLoop(a, n, to, BNSqrtLoop(a, n, (st.i + to) \div 2, st))

\* r with r^2 <= a < (r+1)^2
BNSqrtBits(a, n) == BNSqrtLoop(a, n, n, [i |-> 0, r |-> <<>>])
BNSqrt(a) == BNSqrtBits(a, ((BNBitLen(a) + 1) \div 2) + 1).r

\* ------------------------------------------------------------------------
\* Floating values [s, m, e] = s * m * 2^e, m odd (canonical), and the
\* IEEE-754 operations of the C types float (24 bits) and double (53 bits).
\* The sign of a zero is not kept: no operation of the library reads it.
\* ------------------------------------------------------------------------

FloatBits == 24
DoubleBits == 53

FZero == [s |-> 0, m |-> <<>>, e |-> 0]
NaN == [s |-> 2, m |-> <<>>, e |-> 0]

IsNaN(a) == a.s = 2
IsZero(a) == a.s = 0

Canon(s, m, e) ==
    IF m = <<>> THEN FZero
    ELSE LET tz == BNTrailingZeros(m)
         IN  [s |-> s, m |-> BNShr(m, tz), e |-> e + tz]

\* s * m * 2^e (plus, with sticky, a positive amount below 2^e) rounded to
\* nearest, ties to even, at p bits.  With sticky, m has more than p bits.
RoundP(p, s, m, e, sticky) ==
    LET n == BNBitLen(m)
        sh == n - p
        q == BNShr(m, sh)
        half == BNBit(m, sh - 1) = 1
        rest == sticky \/ ~BNLowZero(m, sh - 1)
        up == half /\ (rest \/ BNBit(q, 0) = 1)
    IN  IF n <= p THEN Canon(s, m, e)
        ELSE Canon(s, IF up THEN BNAdd(q, <<1>>) ELSE q, e + sh)

Round(p, a) == IF IsNaN(a) \/ IsZero(a) THEN a ELSE RoundP(p, a.s, a.m, a.e, FALSE)

Neg(a) == IF IsNaN(a) THEN a ELSE [s |-> -a.s, m |-> a.m, e |-> a.e]

FromInt(n) ==
    IF n = 0 THEN FZero
    ELSE IF n > 0 THEN Canon(1, BNFromInt(n), 0)
    ELSE Canon(-1, BNFromInt(-n), 0)

\* a + b, exactly
ExactAdd(a, b) ==
    IF IsNaN(a) \/ IsNaN(b) THEN NaN
    ELSE IF IsZero(a) THEN b
    ELSE IF IsZero(b) THEN a
    ELSE LET e == IF a.e < b.e THEN a.e ELSE b.e
             ma == BNShl(a.m, a.e - e)
             mb == BNShl(b.m, b.e - e)
             c == BNCmp(ma, mb)
         IN  IF a.s = b.s THEN Canon(a.s, BNAdd(ma, mb), e)
             ELSE IF c = 0 THEN FZero
             ELSE IF c > 0 THEN Canon(a.s, BNSub(ma, mb), e)
             ELSE Canon(b.s, BNSub(mb, ma), e)

ExactSub(a, b) == ExactAdd(a, Neg(b))

\* a * b, exactly
ExactMul(a, b) ==
    IF IsNaN(a) \/ IsNaN(b) THEN NaN
    ELSE IF IsZero(a) \/ IsZero(b) THEN FZero
    ELSE Canon(a.s * b.s, BNMul(a.m, b.m), a.e + b.e)

\* the sign of a - b; a comparison with a NaN operand is false
Less(a, b) == ~IsNaN(a) /\ ~IsNaN(b) /\ ExactSub(a, b).s < 0
LessEq(a, b) == ~IsNaN(a) /\ ~IsNaN(b) /\ ExactSub(a, b).s <= 0
Greater(a, b) == Less(b, a)
GreaterEq(a, b) == LessEq(b, a)

\* a / b rounded at p bits; 0/0 is NaN (x/0 for x # 0 does not arise: the
\* only zero divisor of the library is N - outliers, under a zero sum)
DivP(p, a, b) ==
    IF IsNaN(a) \/ IsNaN(b) \/ IsZero(b) THEN NaN
    ELSE IF IsZero(a) THEN FZero
    ELSE LET d == p + 2 + BNBitLen(b.m) - BNBitLen(a.m)
             k == IF d > 0 THEN d ELSE 0
             qr == BNDivMod(BNShl(a.m, k), b.m)
         IN  RoundP(p, a.s * b.s, qr.q, a.e - b.e - k, qr.r # <<>>)

\* sqrt(a) rounded at p bits; the square root of a negative number or of a
\* NaN is NaN
SqrtP(p, a) ==
    IF IsNaN(a) \/ a.s < 0 THEN NaN
    ELSE IF IsZero(a) THEN FZero
    ELSE LET d == 2 * (p + 2) - BNBitLen(a.m)
             k0 == IF d > 0 THEN d ELSE 0
             k == IF (a.e - k0) % 2 = 0 THEN k0 ELSE k0 + 1
             x == BNShl(a.m, k)
             r == BNSqrt(x)
         IN  RoundP(p, 1, r, (a.e - k) \div 2, BNMul(r, r) # x)

\* the conversion of a finite floating value to a signed integer: toward zero
Trunc(a) ==
    IF IsZero(a) THEN 0
    ELSE IF a.e >= 0 THEN a.s * BNToInt(BNShl(a.m, a.e))
    ELSE a.s * BNToInt(BNShr(a.m, -a.e))

\* C float and double: exact values rounded at the precision of the type
F(a) == Round(FloatBits, a)
D(a) == Round(DoubleBits, a)

\* (float) n, (double) n for an int64_t n
IntToFloat(n) == F(FromInt(n))
IntToDouble(n) == D(FromInt(n))

\* float op float
FAdd(a, b) == F(ExactAdd(a, b))
FSub(a, b) == F(ExactSub(a, b))
FMul(a, b) == F(ExactMul(a, b))
FDiv(a, b) == DivP(FloatBits, a, b)

\* double op double
DAdd(a, b) == D(ExactAdd(a, b))
DSub(a, b) == D(ExactSub(a, b))
DMul(a, b) == D(ExactMul(a, b))
DDiv(a, b) == DivP(DoubleBits, a, b)
DSqrt(a) == SqrtP(DoubleBits, a)

\* ABSOLUTE(x): (x) >= 0 ? (x) : -(x)
ABSOLUTE(a) == IF IsNaN(a) THEN a ELSE IF a.s >= 0 THEN a ELSE Neg(a)

\* ------------------------------------------------------------------------
\* The statistics engine.
\* ------------------------------------------------------------------------

\* INF and NINF are 2^63 - 1 and its negation in the source.  The integers
\* of the model are 32 bits wide, so INF is the largest of them; every
\* sample of the model lies strictly between NINF and INF, as every int64_t
\* sample but the two extremes does in the source, and the library only
\* compares with INF and NINF.
INF == 2147483647
NINF == -INF

\* INF / 32 converted to float for the comparison with sketch_abdev:
\* 288230376151711743 rounds to 2^58
InfOver32 == [s |-> 1, m |-> <<1>>, e |-> 58]

\* the null pointer, as a value of the type of *stat
NULL == [null |-> TRUE]

\* Each loop of the library is the iteration of its body on the record of
\* the variables it updates, i the 0-based loop counter of the source
\* (sample_set[i] of the source is sample_set[i + 1] here).

\* for ( sum = 0, i = 0; i < sample_size; ++i ) sum += sample_set[i];
RECURSIVE SumSamples(_, _, _)
SumSamples(sample_set, sample_size, v) ==
    IF v.i >= sample_size THEN v
    ELSE IF v.i + 1 = sample_size
    THEN [i |-> v.i + 1, sum |-> FAdd(v.sum, IntToFloat(sample_set[v.i + 1]))]
    ELSE SumSamples(sample_set, sample_size,
                    SumSamples(sample_set, (v.i + sample_size) \div 2, v))

constats_get_mean(sample_set, sample_size) ==
    FDiv(SumSamples(sample_set, sample_size, [i |-> 0, sum |-> FZero]).sum,
         IntToFloat(sample_size))

\* for ( sum = 0, i = 0; i < sample_size; ++i )
\*     sum += ABSOLUTE( sample_set[i] - mean );          (mean a float)
RECURSIVE SumSketchAbdev(_, _, _, _)
SumSketchAbdev(sample_set, sample_size, mean, v) ==
    IF v.i >= sample_size THEN v
    ELSE IF v.i + 1 = sample_size
    THEN [i |-> v.i + 1,
          sum |-> FAdd(v.sum, ABSOLUTE(FSub(IntToFloat(sample_set[v.i + 1]), mean)))]
    ELSE SumSketchAbdev(sample_set, sample_size, mean,
                        SumSketchAbdev(sample_set, (v.i + sample_size) \div 2, mean, v))

\* if ( sample_size > 16 ) sample_size >>= 4;
SketchSize(sample_size) == IF sample_size > 16 THEN sample_size \div 16 ELSE sample_size

\* ToleranceOfSketch without the division of the sum by the sketch's size
ToleranceOfSketchSum(sample_set, n, mean) ==
    LET sketch_abdev == SumSketchAbdev(sample_set, n, mean, [i |-> 0, sum |-> FZero]).sum
    IN  IF Greater(sketch_abdev, InfOver32) THEN INF
        ELSE Trunc(FMul(IntToFloat(5), sketch_abdev))

\* lines 59-71, from the sketch's mean on
ToleranceOfSketch(sample_set, n, mean) ==
    LET sketch_abdev == FDiv(SumSketchAbdev(sample_set, n, mean, [i |-> 0, sum |-> FZero]).sum,
                             IntToFloat(n))
    IN  IF Greater(sketch_abdev, InfOver32) THEN INF
        ELSE Trunc(FMul(IntToFloat(5), sketch_abdev))

constats_get_tolerance(sample_set, sample_size) ==
    ToleranceOfSketch(sample_set, SketchSize(sample_size),
        FDiv(SumSamples(sample_set, SketchSize(sample_size), [i |-> 0, sum |-> FZero]).sum,
             IntToFloat(SketchSize(sample_size))))

\* int64_t upper_thresh = tolerance == INF ? INF : mean + tolerance;
upper_thresh(mean, tolerance) ==
    IF tolerance = INF THEN INF ELSE Trunc(DAdd(mean, IntToDouble(tolerance)))

\* int64_t lower_thresh = tolerance == INF ? NINF : mean - tolerance;
lower_thresh(mean, tolerance) ==
    IF tolerance = INF THEN NINF ELSE Trunc(DSub(mean, IntToDouble(tolerance)))

\* float dev = ABSOLUTE( sample - mean ) with mean a double field
Deviation(sample, mean) == F(ABSOLUTE(DSub(IntToDouble(sample), mean)))

\* sample_set[i] > upper_thresh || sample_set[i] < lower_thresh
IsOutlier(sample, upper, lower) == sample > upper \/ sample < lower

\* The body of the first loop, lines 106-129, on sample x with deviation dev.
FirstPassBody(v, x, dev, out) ==
    [i        |-> v.i + 1,
     abdevSum |-> FAdd(v.abdevSum, dev),
     stdevSum |-> FAdd(v.stdevSum, FMul(dev, dev)),
     min      |-> IF x < v.min THEN x ELSE v.min,
     max      |-> IF x > v.max THEN x ELSE v.max,
     outliers |-> IF out THEN v.outliers + 1 ELSE v.outliers,
     normSum  |-> IF out THEN v.normSum ELSE FAdd(v.normSum, IntToFloat(x)),
     norm_max |-> IF ~out /\ x > v.norm_max THEN x ELSE v.norm_max,
     norm_min |-> IF ~out /\ x < v.norm_min THEN x ELSE v.norm_min]

\* for ( i = 0; i < sample_size; ++i ) { ... }, lines 104-130
RECURSIVE FirstPass(_, _, _, _, _, _)
FirstPass(sample_set, sample_size, mean, upper, lower, v) ==
    IF v.i >= sample_size THEN v
    ELSE IF v.i + 1 = sample_size
    THEN FirstPassBody(v, sample_set[v.i + 1],
                       Deviation(sample_set[v.i + 1], mean),
                       IsOutlier(sample_set[v.i + 1], upper, lower))
    ELSE FirstPass(sample_set, sample_size, mean, upper, lower,
                   FirstPass(sample_set, (v.i + sample_size) \div 2, mean, upper, lower, v))

\* The body of the second loop, lines 138-143.
SecondPassBody(v, x, norm_mean, upper, lower, dev) ==
    IF x <= upper /\ x >= lower
    THEN [i |-> v.i + 1,
          normAbdevSum |-> FAdd(v.normAbdevSum, dev),
          normStdevSum |-> FAdd(v.normStdevSum, FMul(dev, dev))]
    ELSE [i |-> v.i + 1,
          normAbdevSum |-> v.normAbdevSum,
          normStdevSum |-> v.normStdevSum]

\* for ( i = 0; i < sample_size; ++i ) { ... }, lines 136-144
RECURSIVE SecondPass(_, _, _, _, _, _)
SecondPass(sample_set, sample_size, norm_mean, upper, lower, v) ==
    IF v.i >= sample_size THEN v
    ELSE IF v.i + 1 = sample_size
    THEN SecondPassBody(v, sample_set[v.i + 1], norm_mean, upper, lower,
                        Deviation(sample_set[v.i + 1], norm_mean))
    ELSE SecondPass(sample_set, sample_size, norm_mean, upper, lower,
                    SecondPass(sample_set, (v.i + sample_size) \div 2,
                               norm_mean, upper, lower, v))

\* Lines 132-149: the fields after the loops.  rest is the float
\* (float) ( sample_size - stat->outliers ).
StatsOfPasses(sample_size, mean, tolerance, p1, p2, rest, norm_mean) ==
    [N          |-> sample_size,
     mean       |-> mean,
     tolerance  |-> tolerance,
     min        |-> p1.min,
     max        |-> p1.max,
     norm_min   |-> p1.norm_min,
     norm_max   |-> p1.norm_max,
     outliers   |-> p1.outliers,
     stdev      |-> DSqrt(FDiv(p1.stdevSum, IntToFloat(sample_size))),
     abdev      |-> FDiv(p1.abdevSum, IntToFloat(sample_size)),
     norm_mean  |-> norm_mean,
     norm_stdev |-> DSqrt(FDiv(p2.normStdevSum, rest)),
     norm_abdev |-> FDiv(p2.normAbdevSum, rest)]

\* Lines 97-147, from the first loop on.
StatsFromFirstPass(sample_set, sample_size, mean, tolerance, upper, lower, p1) ==
    LET rest == IntToFloat(sample_size - p1.outliers)
        norm_mean == FDiv(p1.normSum, rest)
        p2 == SecondPass(sample_set, sample_size, norm_mean, upper, lower,
                         [i |-> 0, normAbdevSum |-> FZero, normStdevSum |-> FZero])
    IN  StatsOfPasses(sample_size, mean, tolerance, p1, p2, rest, norm_mean)

\* StatsOf with norm_min and norm_max starting at 0
StatsOfZeroNormExtrema(sample_set, sample_size, mean, tolerance) ==
    LET upper == upper_thresh(mean, tolerance)
        lower == lower_thresh(mean, tolerance)
    IN  StatsFromFirstPass(sample_set, sample_size, mean, tolerance, upper, lower,
            FirstPass(sample_set, sample_size, mean, upper, lower,
                [i |-> 0,
                 abdevSum |-> FZero, stdevSum |-> FZero, normSum |-> FZero,
                 min |-> INF, max |-> NINF,
                 norm_min |-> 0, norm_max |-> 0, outliers |-> 0]))

\* Lines 83-147: *stat after a call that passed the error check.
StatsOf(sample_set, sample_size, mean, tolerance) ==
    LET upper == upper_thresh(mean, tolerance)
        lower == lower_thresh(mean, tolerance)
    IN  StatsFromFirstPass(sample_set, sample_size, mean, tolerance, upper, lower,
            FirstPass(sample_set, sample_size, mean, upper, lower,
                [i |-> 0,
                 abdevSum |-> FZero, stdevSum |-> FZero, normSum |-> FZero,
                 min |-> INF, max |-> NINF,
                 norm_min |-> INF, norm_max |-> NINF, outliers |-> 0]))

\* constats_calculate_stats without the test of sample_size
CalculateWithoutSizeCheck(sample_set, sample_size, stat) ==
    IF stat = NULL THEN [rc |-> -1, stat |-> stat]
    ELSE [rc |-> 0,
          stat |-> StatsOf(sample_set, sample_size,
                           constats_get_mean(sample_set, sample_size),
                           constats_get_tolerance(sample_set, sample_size))]

\* The result of constats_calculate_stats: its return value and the
\* contents of *stat afterwards (stat = NULL: there is no object).
constats_calculate_stats(sample_set, sample_size, stat) ==
    IF stat = NULL \/ sample_size = 0 THEN [rc |-> -1, stat |-> stat]
    ELSE [rc |-> 0,
          stat |-> StatsOf(sample_set, sample_size,
                           constats_get_mean(sample_set, sample_size),
                           constats_get_tolerance(sample_set, sample_size))]

\* ------------------------------------------------------------------------
\* The compact number formatter.
\* ------------------------------------------------------------------------

\* DTOC(x): (char)('0' + (x))
DTOC(x) == <<"0", "1", "2", "3", "4", "5", "6", "7", "8", "9">>[x + 1]

\* while ( value > 0 && digit_index < 20 ) { digits[digit_index++] = ... }
\* v = [value, digit_index, digits]; digits[k] of the source is digits[k + 1]
RECURSIVE TurnIntoDigits(_)
TurnIntoDigits(v) ==
    IF ~(v.value > 0 /\ v.digit_index < 20) THEN v
    ELSE TurnIntoDigits([value       |-> v.value \div 10,
                         digit_index |-> v.digit_index + 1,
                         digits      |-> Append(v.digits, DTOC(v.value % 10))])

\* while ( width > 0 && digit_index >= 1 )
\*     { buf[buf_index++] = digits[--digit_index]; --width; }
\* v = [mem, buf_index, width, digit_index]; buf[k] is mem[buf + k]
RECURSIVE ReverseIntoBuf(_, _, _)
ReverseIntoBuf(digits, buf, v) ==
    IF ~(v.width > 0 /\ v.digit_index >= 1) THEN v
    ELSE ReverseIntoBuf(digits, buf,
             [mem         |-> [v.mem EXCEPT ![buf + v.buf_index] = digits[v.digit_index]],
              buf_index   |-> v.buf_index + 1,
              width       |-> v.width - 1,
              digit_index |-> v.digit_index - 1])

\* lines 239-252
Suffix(digit_index) ==
    IF digit_index >= 18 THEN "E"
    ELSE IF digit_index >= 15 THEN "P"
    ELSE IF digit_index >= 12 THEN "T"
    ELSE IF digit_index >= 9 THEN "G"
    ELSE IF digit_index >= 6 THEN "M"
    ELSE IF digit_index >= 3 THEN "K"
    ELSE " "

\* Lines 228-256.  buf_index is a uint64_t: buf_index -= chars_deleted wraps
\* below zero to 2^64 - k, the test buf_index < 0 is never true, and
\* buf[buf_index] is then the byte k places before buf.  The wrapped index
\* is kept here as -k.
AppendSuffix(buf, v) ==
    IF ~(v.digit_index >= 1) THEN v
    ELSE LET chars_deleted == 3 - (v.digit_index % 3)
             buf_index == v.buf_index - chars_deleted
             digit_index == v.digit_index + chars_deleted
         IN  [mem         |-> [v.mem EXCEPT ![buf + buf_index] = Suffix(digit_index)],
              buf_index   |-> buf_index + 1,
              width       |-> v.width + chars_deleted - 1,
              digit_index |-> digit_index]

\* while ( width > 0 ) { buf[buf_index++] = ' '; --width; }
RECURSIVE PadWithSpaces(_, _)
PadWithSpaces(buf, v) ==
    IF ~(v.width > 0) THEN v
    ELSE PadWithSpaces(buf,
             [mem         |-> [v.mem EXCEPT ![buf + v.buf_index] = " "],
              buf_index   |-> v.buf_index + 1,
              width       |-> v.width - 1,
              digit_index |-> v.digit_index])

\* Lines 206-265, for value >= 0, from the digits on.
TruncateDigits(d, mem, buf, width) ==
    PadWithSpaces(buf,
        AppendSuffix(buf,
            ReverseIntoBuf(d.digits, buf,
                [mem |-> mem, buf_index |-> 0, width |-> width,
                 digit_index |-> d.digit_index])))

\* constats_truncate ( value, buf, width ): its return value and the memory
\* afterwards.  mem is the memory around the caller's buffer, a function
\* from byte offsets to characters; buf is the offset of the parameter buf.
RECURSIVE constats_truncate(_, _, _, _)
constats_truncate(value, mem, buf, width) ==
    IF width = 0 THEN [rc |-> -1, mem |-> mem]
    ELSE IF value < 0
    THEN constats_truncate(-value, [mem EXCEPT ![buf] = "-"], buf + 1, width - 1)
    ELSE [rc  |-> 0,
          mem |-> TruncateDigits(
                      TurnIntoDigits([value |-> value, digit_index |-> 0, digits |-> <<>>]),
                      mem, buf, width).mem]

\* ------------------------------------------------------------------------
\* The histogram renderer.
\* ------------------------------------------------------------------------

Half == [s |-> 1, m |-> <<1>>, e |-> -1]

\* The conversion of a double to uint64_t and then to int64_t, lines 158 and
\* 284-285.  For x <= -1 the conversion to the unsigned type is undefined;
\* a build either wraps it (x86-64: the int64_t is trunc(x) again) or
\* saturates it at 0 (AArch64).
UnsignedConversions == {"wrap", "saturate"}

DoubleToUnsigned(x, conv) ==
    IF Trunc(x) < 0 /\ conv = "saturate" THEN 0 ELSE Trunc(x)

\* return stat->norm_mean + zScore*stat->norm_stdev;
constats_zrange_value(stat, zScore, conv) ==
    DoubleToUnsigned(DAdd(stat.norm_mean, DMul(zScore, stat.norm_stdev)), conv)

\* return (float)(value - stat->norm_mean) / stat->norm_stdev;
constats_zscore_value(stat, value) ==
    IF IsZero(stat.norm_stdev) THEN FZero
    ELSE F(DDiv(F(DSub(IntToDouble(value), stat.norm_mean)), stat.norm_stdev))

\* for ( count = 0, i = 0; i < sample_size; ++i )
\*     if ( sample_set[i] >= min && sample_set[i] <= max ) ++count;
RECURSIVE CountLoop(_, _, _, _, _)
CountLoop(sample_set, sample_size, min, max, v) ==
    IF v.i >= sample_size THEN v
    ELSE IF v.i + 1 = sample_size
    THEN [i |-> v.i + 1,
          count |-> IF sample_set[v.i + 1] >= min /\ sample_set[v.i + 1] <= max
                    THEN v.count + 1 ELSE v.count]
    ELSE CountLoop(sample_set, sample_size, min, max,
                   CountLoop(sample_set, (v.i + sample_size) \div 2, min, max, v))

constats_count_in_range(sample_set, sample_size, min, max) ==
    CountLoop(sample_set, sample_size, min, max, [i |-> 0, count |-> 0]).count

\* the widths of bar, count_str and value_below_str / value_above_str
BarWidth == 32
CountWidth == 12
ValueWidth == 13

\* a char array of n characters before any of them is written
Unwritten(n) == [k \in 0..(n - 1) |-> "?"]

\* the first width characters of a buffer, as a string
FieldOf(mem, width) == [k \in 1..width |-> mem[k - 1]]

\* uint64_t X_value = sample_size >> 5 == 0 ? 1 : sample_size >> 5;
X_value(sample_size) == IF sample_size \div 32 = 0 THEN 1 ELSE sample_size \div 32

\* Lines 287-302 of constats_print_zrange_bar, from count on.  With
\* X_count > 32 the second memset is given the length 32 - X_count wrapped
\* to a size_t near 2^64 and runs off the stack: the process is killed
\* before the line is printed.
BarLine(zScoreMin, zScoreMax, value_below, value_above, count, X_count) ==
    IF X_count > BarWidth
    THEN [crashed |-> TRUE, zScoreMin |-> zScoreMin, zScoreMax |-> zScoreMax,
          count |-> count, X_count |-> X_count]
    ELSE [crashed |-> FALSE, zScoreMin |-> zScoreMin, zScoreMax |-> zScoreMax,
          count |-> count, X_count |-> X_count,
          bar |-> [k \in 1..BarWidth |-> IF k <= X_count THEN "X" ELSE " "],
          count_str |-> FieldOf(constats_truncate(count, Unwritten(CountWidth), 0,
                                                  CountWidth).mem, CountWidth),
          value_below_str |-> FieldOf(constats_truncate(value_below, Unwritten(ValueWidth),
                                                        0, ValueWidth).mem, ValueWidth),
          value_above_str |-> FieldOf(constats_truncate(value_above, Unwritten(ValueWidth),
                                                        0, ValueWidth).mem, ValueWidth)]

BarOfCount(sample_size, zScoreMin, zScoreMax, value_below, value_above, count) ==
    BarLine(zScoreMin, zScoreMax, value_below, value_above, count,
            count \div X_value(sample_size))

BarOfValues(sample_set, sample_size, zScoreMin, zScoreMax, value_below, value_above) ==
    BarOfCount(sample_size, zScoreMin, zScoreMax, value_below, value_above,
        constats_count_in_range(sample_set, sample_size, value_below, value_above))

\* constats_print_zrange_bar: the line it prints, with the arguments and
\* the count it was made from, or the crash
constats_print_zrange_bar(sample_set, sample_size, stat, zScoreMin, zScoreMax, conv) ==
    BarOfValues(sample_set, sample_size, zScoreMin, zScoreMax,
                constats_zrange_value(stat, zScoreMin, conv),
                constats_zrange_value(stat, zScoreMax, conv))

\* One turn of the loop below: bar is the call's outcome, next is i + 0.5.
HistogramStep(v, bar, next) ==
    [i |-> next, bars |-> Append(v.bars, bar), crashed |-> bar.crashed]

\* for ( ; i < maxZ; i += 0.5 ) constats_print_zrange_bar( ..., i, i + 0.5 );
\* v = [i, bars, crashed]
RECURSIVE HistogramLoop(_, _, _, _, _, _)
HistogramLoop(sample_set, sample_size, stat, maxZ, conv, v) ==
    IF v.crashed \/ ~Less(v.i, maxZ) THEN v
    ELSE HistogramLoop(sample_set, sample_size, stat, maxZ, conv,
             HistogramStep(v,
                 constats_print_zrange_bar(sample_set, sample_size, stat,
                                           v.i, F(DAdd(v.i, Half)), conv),
                 F(DAdd(v.i, Half))))

\* if ( i >= maxZ ) constats_print_zrange_bar( ..., -0.5, 0.5 );
DegenerateBar(sample_set, sample_size, stat, i, maxZ, conv) ==
    IF GreaterEq(i, maxZ)
    THEN <<constats_print_zrange_bar(sample_set, sample_size, stat, Neg(Half), Half, conv)>>
    ELSE <<>>

HistogramFrom(sample_set, sample_size, stat, i, maxZ, conv, first) ==
    HistogramLoop(sample_set, sample_size, stat, maxZ, conv,
        [i |-> i, bars |-> first,
         crashed |-> first # <<>> /\ first[1].crashed])

\* i = i < -3 ? -3 : i;
ClampLow(i) == IF Less(i, IntToFloat(-3)) THEN IntToFloat(-3) ELSE i

\* maxZ = maxZ > 3 ? 3 : maxZ;
ClampHigh(maxZ) == IF Greater(maxZ, IntToFloat(3)) THEN IntToFloat(3) ELSE maxZ

HistogramBetween(sample_set, sample_size, stat, i, maxZ, conv) ==
    HistogramFrom(sample_set, sample_size, stat, i, maxZ, conv,
        DegenerateBar(sample_set, sample_size, stat, i, maxZ, conv))

\* constats_print_zhistogram: [i, bars, crashed], bars the calls of
\* constats_print_zrange_bar in order; each printed its line, but for the
\* last one when it crashed
constats_print_zhistogram(sample_set, sample_size, stat, conv) ==
    HistogramBetween(sample_set, sample_size, stat,
        ClampLow(constats_zscore_value(stat, stat.min)),
        ClampHigh(constats_zscore_value(stat, stat.max)), conv)

\* the text and the value of one printf of constats_print_stats
Line(text, val) == [text |-> text, val |-> val]

\* lines 340-358
LinesBeforeHistogram(stat) ==
    << Line("----", 0),
       Line("Sample Size            : %lu", stat.N),
       Line("Average value          : %f", stat.mean),
       Line("Minimum value          : %ld", stat.min),
       Line("Maximum value          : %ld", stat.max),
       Line("Standard Deviation     : %f", stat.stdev),
       Line("Mean Absolute Deviation: %f", stat.abdev),
       Line("", 0),
       Line("Outlier Count   : %lu", stat.outliers) >>
    \o (IF stat.outliers > 0
        THEN << Line("Without Outliers:", 0),
                Line("\tAverage value          : %f", stat.norm_mean),
                Line("\tMinimum value          : %ld", stat.norm_min),
                Line("\tMaximum value          : %ld", stat.norm_max),
                Line("\tStandard Deviation     : %f", stat.norm_stdev),
                Line("\tMean Absolute Deviation: %f", stat.norm_abdev) >>
        ELSE <<>>)
    \o << Line("", 0) >>

\* lines 360-363
LinesAfterHistogram(stat) ==
    << Line("", 0),
       Line("Summary:", 0),
       Line("norm mean:\t%f;\tnorm abs dev:\t%f", <<stat.norm_mean, stat.norm_abdev>>),
       Line("min:\t\t%lu;\t\tmax:\t\t%lu", <<stat.min, stat.max>>),
       Line("----", 0) >>

\* the lines the bars printed
BarLines(bars) == SelectSeq(bars, LAMBDA b : ~b.crashed)

PrintedOf(stat, hist) ==
    IF hist.crashed
    THEN [rc |-> 0, crashed |-> TRUE, bars |-> hist.bars,
          lines |-> LinesBeforeHistogram(stat) \o BarLines(hist.bars)]
    ELSE [rc |-> 0, crashed |-> FALSE, bars |-> hist.bars,
          lines |-> LinesBeforeHistogram(stat) \o BarLines(hist.bars)
                    \o LinesAfterHistogram(stat)]

\* constats_print_stats: what it writes to stdout, the calls of
\* constats_print_zrange_bar it made, and whether it crashed in one
constats_print_stats(sample_set, sample_size, stat, conv) ==
    PrintedOf(stat, constats_print_zhistogram(sample_set, sample_size, stat, conv))

\* stats_t stats; before constats_calculate_stats has written it
Uninitialised == [uninitialised |-> TRUE]

PrintIfCalculated(sample_set, sample_size, calc, conv) ==
    IF calc.rc # 0
    THEN [rc |-> calc.rc, crashed |-> FALSE, bars |-> <<>>, lines |-> <<>>]
    ELSE constats_print_stats(sample_set, sample_size, calc.stat, conv)

\* ------------------------------------------------------------------------
\* The caller: a sample array, a stats_t object (or none), and the calls
\* of the three exported functions.
\* ------------------------------------------------------------------------

VARIABLES
    samples,    \* the caller's array; its length is the sample_size passed
    handle,     \* the caller's stats_t object, or NULL
    local,      \* stats, the stats_t local to constats_get_and_print_stats
    ret,        \* the value the last call returned
    bars,       \* the calls of constats_print_zrange_bar made so far
    stdout,     \* the lines printed so far
    pc,         \* "idle", "calculated", "printed", "crashed", "truncated"
    arg,        \* constats_truncate's arguments [value, width]
    memory      \* the bytes around constats_truncate's buffer

vars == <<samples, handle, local, ret, bars, stdout, pc, arg, memory>>

\* Sample arrays: at most one leading sample followed by a run of equal
\* samples.  Big1 and Big5 are 2^24 + 1 and 2^24 + 5, beyond the integers
\* a float holds exactly.
MaxRun == 33
Big1 == Pow2(FloatBits) + 1
Big5 == Pow2(FloatBits) + 5
Values == {-6, 0, 1, 5, Big1, Big5}
RunLengths == {1, 3, 9, MaxRun}
Run(x, n) == [k \in 1..n |-> x]
Heads == {<<>>} \cup {<<x>> : x \in Values}
SampleSets == {h \o Run(x, n) : h \in Heads, x \in Values, n \in RunLengths} \cup Heads

\* a stats_t object left over from an earlier use
Stale == [N |-> 7, mean |-> Half, tolerance |-> 2, min |-> -1, max |-> 4,
          norm_min |-> 1, norm_max |-> 3, outliers |-> 1,
          stdev |-> Half, abdev |-> Half,
          norm_mean |-> Half, norm_stdev |-> Half, norm_abdev |-> Half]

NoCall == [value |-> 0, width |-> 0]

Init ==
    /\ samples \in SampleSets
    /\ handle \in {NULL, Stale}
    /\ local = Uninitialised
    /\ ret = 0
    /\ bars = <<>>
    /\ stdout = <<>>
    /\ pc = "idle"
    /\ arg = NoCall
    /\ memory = <<>>

Calculated(calc) ==
    /\ ret' = calc.rc
    /\ handle' = calc.stat
    /\ pc' = "calculated"

\* error = constats_calculate_stats ( samples, N, handle );
CalculateStats ==
    /\ pc = "idle"
    /\ Calculated(constats_calculate_stats(samples, Len(samples), handle))
    /\ UNCHANGED <<samples, local, bars, stdout, arg, memory>>

Printed(p) ==
    /\ ret' = p.rc
    /\ bars' = p.bars
    /\ stdout' = stdout \o p.lines
    /\ pc' = IF p.crashed THEN "crashed" ELSE "printed"

\* constats_print_stats ( samples, N, handle ); after a successful
\* constats_calculate_stats
PrintStats ==
    /\ pc = "calculated"
    /\ ret = 0
    /\ \E conv \in UnsignedConversions :
           Printed(constats_print_stats(samples, Len(samples), handle, conv))
    /\ UNCHANGED <<samples, handle, local, arg, memory>>

\* constats_get_and_print_stats ( samples, N ); calc is the outcome of its
\* call of constats_calculate_stats on the local stats
GotAndPrinted(calc) ==
    /\ local' = calc.stat
    /\ \E conv \in UnsignedConversions :
           Printed(PrintIfCalculated(samples, Len(samples), calc, conv))

GetAndPrintStats ==
    /\ pc = "idle"
    /\ GotAndPrinted(constats_calculate_stats(samples, Len(samples), local))
    /\ UNCHANGED <<samples, handle, arg, memory>>

Next == CalculateStats \/ PrintStats \/ GetAndPrintStats

Spec == Init /\ [][Next]_vars

\* ------------------------------------------------------------------------
\* constats_truncate on its own: a value and a width, the buffer in the
\* middle of memory (two bytes before it and one after it are kept).
\* ------------------------------------------------------------------------

MaxWidth == 8
TruncateValues ==
    {0, 5, 42, 100, 999, 1000, 1999, 12345, 99999, 999999, 1000000, 123456789,
     -5, -42, -999, -1000, -1999, -12345, -999999, -123456789}
Untouched == "#"

InitTruncate ==
    /\ samples = <<>>
    /\ handle = NULL
    /\ local = Uninitialised
    /\ ret = 0
    /\ bars = <<>>
    /\ stdout = <<>>
    /\ pc = "idle"
    /\ arg \in [value : TruncateValues, width : 0..MaxWidth]
    /\ memory = [k \in -2..arg.width |-> Untouched]

Truncated(t) ==
    /\ ret' = t.rc
    /\ memory' = t.mem
    /\ pc' = "truncated"

\* ret = constats_truncate ( arg.value, buf, arg.width ); buf at offset 0
Truncate ==
    /\ pc = "idle"
    /\ Truncated(constats_truncate(arg.value, memory, 0, arg.width))
    /\ UNCHANGED <<samples, handle, local, bars, stdout, arg>>

NextTruncate == Truncate

SpecTruncate == InitTruncate /\ [][NextTruncate]_vars

\* ------------------------------------------------------------------------
\* Properties of constats_calculate_stats and constats_get_and_print_stats.
\* ------------------------------------------------------------------------

\* the stats_t a successful constats_calculate_stats has just filled
JustCalculated == pc = "calculated" /\ ret = 0

\* C1: constats_calculate_stats called with sample_size = 0 or with a null
\* stat returns -1 and leaves every field of the caller's object as it was;
\* constats_get_and_print_stats called with sample_size = 0 returns that
\* -1 and prints no line (and calls constats_print_zrange_bar never).
C1_FailureLeavesStatsAlone ==
    [][ /\ (pc = "idle" /\ pc' = "calculated" /\ (Len(samples) = 0 \/ handle = NULL))
            => (ret' = -1 /\ handle' = handle)
        /\ (pc = "idle" /\ pc' \in {"printed", "crashed"} /\ Len(samples) = 0)
            => (ret' = -1 /\ pc' = "printed" /\ stdout' = stdout /\ bars' = bars
                /\ handle' = handle /\ local' = local)
      ]_vars

\* a failed constats_calculate_stats on an object with earlier contents
C1_Witness ==
    pc = "calculated" /\ Len(samples) = 0 /\ ret = -1 /\ handle = Stale

\* the number of samples s with s > upper or s < lower
CountOutside(upper, lower) ==
    Cardinality({k \in DOMAIN samples : samples[k] > upper \/ samples[k] < lower})

\* the number of samples s with s > mean + tolerance or s < mean - tolerance,
\* sum and difference taken exactly
CountOutsideExactly(mean, tolerance) ==
    Cardinality({k \in DOMAIN samples :
                    \/ Greater(FromInt(samples[k]), ExactAdd(mean, FromInt(tolerance)))
                    \/ Less(FromInt(samples[k]), ExactSub(mean, FromInt(tolerance)))})

\* C2: for a non-empty sample set with a finite tolerance, outliers is the
\* number of samples s with s > mean + tolerance or s < mean - tolerance,
\* mean the fractional mean and tolerance the stored integer tolerance.
C2_OutliersOutsideInterval ==
    (JustCalculated /\ handle.tolerance # INF) =>
        handle.outliers = CountOutsideExactly(handle.mean, handle.tolerance)

\* What lines 87-88 and 116 count instead: the samples s with s > upper or
\* s < lower, upper and lower being mean + tolerance and mean - tolerance
\* converted to int64_t, that is truncated toward zero.
OutliersOutsideTruncatedThresholds ==
    (JustCalculated /\ handle.tolerance # INF) =>
        handle.outliers =
            CountOutside(Trunc(DAdd(handle.mean, IntToDouble(handle.tolerance))),
                         Trunc(DSub(handle.mean, IntToDouble(handle.tolerance))))

\* C3: for a non-empty sample set with outliers < count,
\* min <= norm_min <= norm_mean <= norm_max <= max.
C3_NormalizedOrdering ==
    (JustCalculated /\ handle.outliers < handle.N) =>
        /\ handle.min <= handle.norm_min
        /\ LessEq(FromInt(handle.norm_min), handle.norm_mean)
        /\ LessEq(handle.norm_mean, FromInt(handle.norm_max))
        /\ handle.norm_max <= handle.max

\* C4: for a non-empty sample set, outliers <= count, and when outliers = 0
\* then norm_mean = mean, norm_min = min and norm_max = max.
C4_NoOutliersNormalizedIsFull ==
    JustCalculated =>
        /\ handle.outliers <= handle.N
        /\ handle.outliers = 0 =>
               /\ handle.norm_mean = handle.mean
               /\ handle.norm_min = handle.min
               /\ handle.norm_max = handle.max

\* no outlier among samples that differ
C4_Witness ==
    JustCalculated /\ handle.outliers = 0 /\ handle.min < handle.max

\* the sample set of the first test array of the driver
Scenario == <<-6>> \o Run(5, 9)

\* the floats nearest 3.9 and 3.4, and the double nearest 3.4
Mean39 == FDiv(IntToFloat(39), IntToFloat(10))
Mean34 == FDiv(IntToFloat(34), IntToFloat(10))
Mean34Double == DDiv(IntToDouble(34), IntToDouble(10))

\* C8, as the code has it: for [-6,5,5,5,5,5,5,5,5,5] the mean is 3.9 (the
\* float nearest to it), the tolerance is 9 = 5 x 1.98 truncated, -6 is the
\* one outlier, norm_mean is exactly 5 and norm_stdev is 0.
C8_ScenarioMean39 ==
    (JustCalculated /\ samples = Scenario) =>
        /\ handle.mean = Mean39
        /\ handle.tolerance = 9
        /\ handle.outliers = 1
        /\ handle.norm_min = 5
        /\ handle.norm_mean = IntToFloat(5)
        /\ handle.norm_stdev = FZero

\* C8 as stated: the same with mean 3.4.
C8_ScenarioMean34 ==
    (JustCalculated /\ samples = Scenario) =>
        /\ handle.mean \in {Mean34, Mean34Double}
        /\ handle.outliers = 1
        /\ handle.norm_mean = IntToFloat(5)
        /\ handle.norm_stdev = FZero

\* the scenario's statistics, -6 its minimum and its outlier
C8_Witness ==
    /\ JustCalculated
    /\ samples = Scenario
    /\ handle.N = 10
    /\ handle.min = -6
    /\ handle.norm_min = 5

\* ------------------------------------------------------------------------
\* Properties of the histogram renderer.
\* ------------------------------------------------------------------------

\* a call of constats_print_stats has been made
Rendering == pc \in {"printed", "crashed"} /\ ret = 0

\* the stats_t it was given: the local of constats_get_and_print_stats, or
\* the caller's object
RenderedStat == IF local # Uninitialised THEN local ELSE handle

RECURSIVE SumOfCounts(_)
SumOfCounts(lines) ==
    IF lines = <<>> THEN 0 ELSE Head(lines).count + SumOfCounts(Tail(lines))

\* C5: the member counts of the buckets the renderer emits sum to at most N.
C5_BucketCountsSumAtMostN ==
    Rendering => SumOfCounts(BarLines(bars)) <= Len(samples)

\* zmin = max(-3, zscore(min)) and zmax = min(3, zscore(max))
ZMin(stat) == ClampLow(constats_zscore_value(stat, stat.min))
ZMax(stat) == ClampHigh(constats_zscore_value(stat, stat.max))

\* the buckets are [z, z + 0.5], consecutive from zmin, while z < zmax
ConsecutiveBuckets(lines, zmin, zmax) ==
    /\ lines # <<>>
    /\ lines[1].zScoreMin = zmin
    /\ \A k \in DOMAIN lines :
           /\ Less(lines[k].zScoreMin, zmax)
           /\ lines[k].zScoreMax = F(DAdd(lines[k].zScoreMin, Half))
           /\ k < Len(lines) => lines[k + 1].zScoreMin = lines[k].zScoreMax
    /\ ~Less(lines[Len(lines)].zScoreMax, zmax)

\* the one bucket [-0.5, 0.5]
DegenerateBucket(lines) ==
    /\ Len(lines) = 1
    /\ lines[1].zScoreMin = Neg(Half)
    /\ lines[1].zScoreMax = Half

\* C9: for a Stats with outliers < count the renderer terminates after
\* emitting at least 1 and at most 12 bucket lines: the one bucket
\* [-0.5, 0.5] when zmin >= zmax, and otherwise the consecutive buckets
\* [z, z + 0.5] from zmin on while z < zmax.
C9_BetweenOneAndTwelveBuckets ==
    (Rendering /\ RenderedStat.outliers < RenderedStat.N) =>
        /\ pc = "printed"
        /\ Len(BarLines(bars)) \in 1..12
        /\ IF GreaterEq(ZMin(RenderedStat), ZMax(RenderedStat))
           THEN DegenerateBucket(BarLines(bars))
           ELSE ConsecutiveBuckets(BarLines(bars), ZMin(RenderedStat), ZMax(RenderedStat))

\* C10: for every bucket rendered, X_count is at most the bar's 32
\* characters, and the two memsets stay inside the bar.
C10_BarFitsItsWidth ==
    Rendering => \A k \in DOMAIN bars : bars[k].X_count <= BarWidth /\ ~bars[k].crashed

\* ------------------------------------------------------------------------
\* Properties of constats_truncate.
\* ------------------------------------------------------------------------

\* the field: the first width characters of the buffer, as a string
Field == [k \in 1..arg.width |-> memory[k - 1]]

Spaces(n) == [k \in 1..n |-> " "]

\* C6: formatting 0 into a field of width >= 1 yields the digit 0 in one
\* position of the field and spaces in every other.
C6_ZeroIsOneDigit ==
    (pc = "truncated" /\ arg.value = 0 /\ arg.width >= 1) =>
        /\ ret = 0
        /\ \E k \in 1..arg.width :
               Field = [j \in 1..arg.width |-> IF j = k THEN "0" ELSE " "]

\* the decimal digits of n >= 0, the leading one first
RECURSIVE Decimal(_)
Decimal(n) == IF n < 10 THEN <<DTOC(n)>> ELSE Append(Decimal(n \div 10), DTOC(n % 10))

Magnitude == IF arg.value < 0 THEN -arg.value ELSE arg.value
Sign == IF arg.value < 0 THEN <<"-">> ELSE <<>>

\* the letter for 10^d
LetterOf(d) ==
    CASE d = 3 -> "K" [] d = 6 -> "M" [] d = 9 -> "G"
      [] d = 12 -> "T" [] d = 15 -> "P" [] d = 18 -> "E" [] OTHER -> "?"

\* the sign, the k leading digits, the letter for the digits left out, spaces
Abbreviated(k) ==
    Sign \o SubSeq(Decimal(Magnitude), 1, k)
         \o <<LetterOf(Len(Decimal(Magnitude)) - k)>>
         \o Spaces(arg.width - Len(Sign) - k - 1)

\* C7: for a value whose decimal representation does not fit a width >= 3,
\* the field is an optional '-', leading digits of |value|, the letter for
\* 10^d with d the number of digits left out (a multiple of 3), then
\* spaces; and nothing outside the field is written.
C7_TruncatedPrefixAndSuffix ==
    (/\ pc = "truncated"
     /\ arg.width >= 3
     /\ Len(Sign) + Len(Decimal(Magnitude)) > arg.width) =>
        /\ \E k \in 0..(arg.width - Len(Sign) - 1) :
               /\ (Len(Decimal(Magnitude)) - k) % 3 = 0
               /\ Field = Abbreviated(k)
        /\ \A j \in DOMAIN memory : j \notin 0..(arg.width - 1) => memory[j] = Untouched

====
